---- MODULE Spec2Model ----
(***************************************************************************)
(* A model of bakpy: the Archive class (archive.py) and the command-line   *)
(* front end (bak.py).                                                     *)
(*                                                                         *)
(* Paths are records [abs, segs]: whether the path is absolute, and its    *)
(* components.  Strings that the program builds or trims (the archive's    *)
(* base name, its timestamp, the file names) are sequences of one-         *)
(* character strings.  The file system is a function from absolute         *)
(* component sequences to "none", "file" or "dir".                         *)
(***************************************************************************)
EXTENDS Integers, Sequences, FiniteSets, TLC

VARIABLES
    \* ---- environment of an Archive ----
    fs,         \* the file system: absolute path -> "none" | "file" | "dir"
    now,        \* the clock datetime.now() reads, in seconds
    disk,       \* the files written into the working directory: name -> content
    \* ---- one Archive instance ----
    obj,        \* "none" before __init__, "live" after it, "failed" if it raised
    fitems,     \* the fitems argument __init__ was called with
    root,       \* self.__root
    items,      \* self.__items
    base_name,  \* self.__base_name
    timestamp,  \* self.__timestamp
    packed,     \* self.__packed
    lastOp,     \* the method called last
    lastExc,    \* the exception it raised, or "none"
    lastRet,    \* the value it returned (when lastExc = "none")
    wrote,      \* the file name the last pack() opened for writing, <<>> if none
    opened,     \* the file name the last get_md5() opened for reading, <<>> if none
    packDone,   \* whether a pack() call on the instance has completed
    \* ---- one run of bak.py ----
    pc,         \* "idle" (no run) | "start" | "done"
    argUse,     \* args.use
    argSilent,  \* args.silent
    home,       \* Path.home()
    cfgKind,    \* what is at the config path: "none" | "noparent" | "dir" | "file"
    cfgText,    \* the content of the file at the config path
    SILENT_OUTPUT, \* the module's global flag
    raised,     \* the exception load_config / create_config raised, or "none"
    stdout,     \* the lines printed
    exitCode,   \* the process's exit status, -1 while running
    calls       \* the functions main called, in order

archVars == <<fs, now, disk, obj, fitems, root, items, base_name, timestamp,
              packed, lastOp, lastExc, lastRet, wrote, opened, packDone>>
mainVars == <<pc, argUse, argSilent, home, cfgKind, cfgText, SILENT_OUTPUT,
              raised, stdout, exitCode, calls>>
vars == <<archVars, mainVars>>

\* ------------------------------------------------------------------ bounds
MaxItems == 2
MaxClock == 1

\* ------------------------------------------------------------------ paths
Cwd == <<"w">>

P(a, s) == [abs |-> a, segs |-> s]

\* The absolute paths the file system may hold something at.
Nodes == {<<>>, <<"w">>, <<"r">>, <<"r", "a">>, <<"w", "a">>}

Parent(n) == SubSeq(n, 1, Len(n) - 1)

\* The file systems considered: / and the working directory are directories,
\* and an entry exists only inside a directory.
FileSystems ==
    {f \in [Nodes -> {"none", "file", "dir"}] :
        /\ f[<<>>] = "dir"
        /\ f[Cwd] = "dir"
        /\ f[<<"r", "a">>] # "dir"
        /\ f[<<"w", "a">>] # "file"
        /\ \A n \in Nodes : (n # <<>> /\ f[n] # "none") => f[Parent(n)] = "dir"}

\* pathlib: Path(root) / ext.  An absolute right operand replaces the left.
PathJoin(r, ext) ==
    IF ext.abs THEN ext ELSE P(r.abs, r.segs \o ext.segs)

\* The absolute location the operating system resolves a path to.
Absolute(p) == IF p.abs THEN p.segs ELSE Cwd \o p.segs

Kind(p) == IF Absolute(p) \in DOMAIN fs THEN fs[Absolute(p)] ELSE "none"

is_valid_dir(p) == Kind(p) = "dir"

is_valid_file(p) == Kind(p) = "file"

is_valid_item(p) == is_valid_dir(p) \/ is_valid_file(p)

None == [none |-> TRUE]

join_path(r, ext) ==
    IF ~is_valid_item(PathJoin(r, ext)) THEN None ELSE PathJoin(r, ext)

\* ---------------------------------------------------------------- strings
RECURSIVE LStrip(_)
LStrip(s) == IF s # <<>> /\ Head(s) = " " THEN LStrip(Tail(s)) ELSE s

RECURSIVE RStrip(_)
RStrip(s) ==
    IF s # <<>> /\ s[Len(s)] = " " THEN RStrip(SubSeq(s, 1, Len(s) - 1)) ELSE s

\* str.strip()
Strip(s) == RStrip(LStrip(s))

DefaultName == <<"A", "r", "c", "h", "i", "v", "e">>

\* Archive._set_name: the value stored in self.__base_name
set_name(name) ==
    IF Strip(name) = <<>> THEN Strip(DefaultName) ELSE Strip(name)

Digit == <<"0", "1", "2", "3", "4", "5", "6", "7", "8", "9">>

\* datetime.now().strftime("%Y%m%d-%H%M%S"), for a clock that counts the
\* seconds of one minute: the date and the hour and minute fields are fixed.
Strftime(n) ==
    <<"2", "0", "2", "0", "0", "1", "0", "1", "-", "0", "0", "0", "0">>
        \o <<Digit[((n \div 10) % 10) + 1], Digit[(n % 10) + 1]>>

ExtTar == <<".", "t", "a", "r">>
ExtTgz == <<".", "t", "g", "z">>

\* A faulty get_name: it formats the clock anew on every call.
get_name_now(flag) ==
    base_name \o <<"-">> \o Strftime(now) \o (IF flag THEN ExtTgz ELSE ExtTar)

\* Archive.get_name
get_name(flag) ==
    base_name \o <<"-">> \o timestamp \o (IF flag THEN ExtTgz ELSE ExtTar)

\* ------------------------------------------------------------ Archive: inputs
Roots == {P(TRUE, <<"r">>), P(TRUE, <<"w">>)}

\* The candidate items tried: "a", "/r/a" and "b" (which exists nowhere).
Candidates == {P(FALSE, <<"a">>), P(TRUE, <<"r", "a">>), P(FALSE, <<"b">>)}

RECURSIVE SeqsUpTo(_, _)
SeqsUpTo(S, n) ==
    IF n = 0 THEN {<<>>}
    ELSE SeqsUpTo(S, n - 1)
            \cup {Append(s, x) : s \in SeqsUpTo(S, n - 1), x \in S}

CandidateLists == SeqsUpTo(Candidates, MaxItems)

\* The base_name arguments tried: empty, blank, padded and plain.
Names == {<<>>, <<" ">>, <<" ", "b", " ">>, <<"b">>}

\* ------------------------------------------------------- Archive: operations
\* A faulty _set_items: it stores the joined path when the join was needed.
RECURSIVE set_items_joined(_, _, _)
set_items_joined(r, cands, acc) ==
    IF cands = <<>> THEN acc
    ELSE LET item == Head(cands)
             alt_item == PathJoin(r, item)
         IN IF is_valid_item(item)
               THEN set_items_joined(r, Tail(cands), Append(acc, item))
            ELSE IF is_valid_item(alt_item)
               THEN set_items_joined(r, Tail(cands), Append(acc, alt_item))
            ELSE set_items_joined(r, Tail(cands), acc)

\* Archive._set_items: the list left in self.__items, starting from acc.
RECURSIVE set_items(_, _, _)
set_items(r, cands, acc) ==
    IF cands = <<>> THEN acc
    ELSE LET item == Head(cands)
             alt_item == PathJoin(r, item)
         IN IF is_valid_item(item)
               THEN set_items(r, Tail(cands), Append(acc, item))
            ELSE IF is_valid_item(alt_item)
               THEN set_items(r, Tail(cands), Append(acc, item))
            ELSE set_items(r, Tail(cands), acc)

ArchFrame == UNCHANGED <<fs, now, mainVars>>

\* Archive.__init__(froot, fitems, base_name, packed)
Archive__init__(froot, cands, name, pk) ==
    /\ obj = "none"
    /\ lastOp' = "__init__"
    /\ fitems' = cands
    /\ IF ~is_valid_dir(froot)
          THEN /\ obj' = "failed"
               /\ lastExc' = "ArchiveException"
               /\ UNCHANGED <<root, items, base_name, timestamp, packed>>
          ELSE /\ obj' = "live"
               /\ lastExc' = "none"
               /\ root' = froot
               /\ items' = set_items(froot, cands, <<>>)
               /\ base_name' = set_name(name)
               /\ packed' = pk
               /\ timestamp' = Strftime(now)
    /\ UNCHANGED <<lastRet, disk, wrote, opened, packDone>>
    /\ ArchFrame

Construct ==
    \E froot \in Roots, cands \in CandidateLists, name \in Names,
       pk \in BOOLEAN :
        Archive__init__(froot, cands, name, pk)

\* The members tar.add() has written when the loop of pack() stops: the
\* items before the first one whose join is None.
RECURSIVE Added(_, _)
Added(r, its) ==
    IF its = <<>> \/ join_path(r, Head(its)) = None THEN <<>>
    ELSE <<[src |-> join_path(r, Head(its)), arcname |-> Head(its)]>>
            \o Added(r, Tail(its))

\* A faulty pack: it sets the flag before it writes the members.
pack_flag_first ==
    /\ obj = "live"
    /\ lastOp' = "pack"
    /\ wrote' = get_name(TRUE)
    /\ LET done == Added(root, items)
           ok == Len(done) = Len(items)
       IN /\ disk' = [n \in DOMAIN disk \cup {get_name(TRUE)} |->
                        IF n = get_name(TRUE)
                           THEN [members |-> done, complete |-> ok]
                           ELSE disk[n]]
          /\ lastExc' = IF ok THEN "none" ELSE "TypeError"
          /\ packed' = TRUE
          /\ packDone' = (packDone \/ ok)
    /\ UNCHANGED <<obj, fitems, root, items, base_name, timestamp, lastRet,
                   opened>>
    /\ ArchFrame

\* Archive.pack.  tar.add(None, item) raises TypeError; the with block
\* closes the file, which stays on disk, and the assignment is not reached.
pack ==
    /\ obj = "live"
    /\ lastOp' = "pack"
    /\ wrote' = get_name(TRUE)
    /\ LET done == Added(root, items)
           ok == Len(done) = Len(items)
       IN /\ disk' = [n \in DOMAIN disk \cup {get_name(TRUE)} |->
                        IF n = get_name(TRUE)
                           THEN [members |-> done, complete |-> ok]
                           ELSE disk[n]]
          /\ lastExc' = IF ok THEN "none" ELSE "TypeError"
          /\ packed' = IF ok THEN TRUE ELSE packed
          /\ packDone' = (packDone \/ ok)
    /\ UNCHANGED <<obj, fitems, root, items, base_name, timestamp, lastRet,
                   opened>>
    /\ ArchFrame

\* hashlib.md5 over the file's content
Md5(content) == [md5 |-> content]

\* Archive.get_md5
get_md5 ==
    /\ obj = "live"
    /\ lastOp' = "get_md5"
    /\ IF ~packed
          THEN /\ lastExc' = "ArchiveException"
               /\ UNCHANGED <<lastRet, opened>>
          ELSE /\ opened' = get_name(TRUE)
               /\ IF get_name(TRUE) \in DOMAIN disk
                     THEN /\ lastExc' = "none"
                          /\ lastRet' = Md5(disk[get_name(TRUE)])
                     ELSE /\ lastExc' = "FileNotFoundError"
                          /\ UNCHANGED lastRet
    /\ UNCHANGED <<obj, fitems, root, items, base_name, timestamp, packed,
                   disk, wrote, packDone>>
    /\ ArchFrame

\* A getter: returns a value, changes no field.
Getter(op, value) ==
    /\ obj = "live"
    /\ lastOp' = op
    /\ lastExc' = "none"
    /\ lastRet' = value
    /\ UNCHANGED <<obj, fitems, root, items, base_name, timestamp, packed,
                   disk, wrote, opened, packDone>>
    /\ ArchFrame

is_packed == Getter("is_packed", packed)

get_root == Getter("get_root", root)

get_items == Getter("get_items", items)

GetName ==
    \E flag \in BOOLEAN :
        Getter(IF flag THEN "get_name(True)" ELSE "get_name(False)",
               get_name(flag))

\* A second passes.
Tick ==
    /\ now < MaxClock
    /\ now' = now + 1
    /\ UNCHANGED <<fs, disk, obj, fitems, root, items, base_name, timestamp,
                   packed, lastOp, lastExc, lastRet, wrote, opened, packDone,
                   mainVars>>

\* ------------------------------------------------------------ bak.py: data
Homes == {"/home/u", "/root"}

ExampleFiles == <<"pictures", "videos/funny_vid.mp4">>

\* The dict create_config builds.
Template(h) == [root |-> h, files |-> ExampleFiles]

\* json.dump(value, f): the text written.
JsonDump(value) == [kind |-> "json", val |-> value]

\* Texts that are no JSON document.
Garbage == {[kind |-> "text", val |-> ""], [kind |-> "text", val |-> "{"]}

\* The contents a file at the config path may have.
Texts ==
    {JsonDump(Template(h)) : h \in Homes}
        \cup {JsonDump([root |-> "/r", files |-> <<"a">>]), JsonDump(<<>>)}
        \cup Garbage

\* What is at the config path: nothing, nothing and no directory to hold
\* it, a directory, or a regular file with some content.
ConfigStates ==
    {<<k, [kind |-> "text", val |-> ""]>> : k \in {"none", "noparent", "dir"}}
        \cup {<<"file", t>> : t \in Texts}

\* ------------------------------------------------------- bak.py: exceptions
NoExc == [type |-> "none", msg |-> <<>>]

Exc(t, m) == [type |-> t, msg |-> m]

\* class ConfigError(OSError); the errors open() raises are OSErrors;
\* json.JSONDecodeError is a ValueError.
OSErrors == {"ConfigError", "FileNotFoundError", "IsADirectoryError"}

Exceptions == OSErrors \cup {"JSONDecodeError"}

\* The exception open(fname, mode) raises, by what is at fname.
OpenError(kind, mode) ==
    CASE kind = "dir" -> Exc("IsADirectoryError", <<"Is a directory">>)
      [] kind = "noparent" -> Exc("FileNotFoundError", <<"No such file or directory">>)
      [] kind = "none" /\ mode = "r" -> Exc("FileNotFoundError", <<"No such file or directory">>)
      [] OTHER -> NoExc

\* Path(fname).is_file()
cfg_is_file(kind) == kind = "file"

\* A faulty create_config body: it opens the file without looking first.
create_try_overwrite(kind, text, h) ==
    IF OpenError(kind, "w") # NoExc
       THEN [exc |-> OpenError(kind, "w"), kind |-> kind, text |-> text]
    ELSE [exc |-> NoExc, kind |-> "file", text |-> JsonDump(Template(h))]

\* The body of create_config's try block: the exception it raises and
\* the state of the config path it leaves.
create_try(kind, text, h) ==
    IF cfg_is_file(kind)
       THEN [exc |-> Exc("ConfigError", <<"File already exists.">>),
             kind |-> kind, text |-> text]
    ELSE IF OpenError(kind, "w") # NoExc
       THEN [exc |-> OpenError(kind, "w"), kind |-> kind, text |-> text]
    ELSE [exc |-> NoExc, kind |-> "file", text |-> JsonDump(Template(h))]

\* create_config(fname): except OSError wraps what the body raised.
create_config(kind, text, h) ==
    LET r == create_try(kind, text, h)
    IN IF r.exc.type \in OSErrors
          THEN [r EXCEPT !.exc = Exc("ConfigError",
                                     <<"Could not create">> \o r.exc.msg)]
          ELSE r

\* The body of load_config's try block: the exception raised and the
\* value returned.
load_try(kind, text) ==
    IF ~cfg_is_file(kind)
       THEN [exc |-> Exc("ConfigError",
                         <<"Configuration provided either does not exist or it is not a file.">>),
             data |-> None]
    ELSE IF OpenError(kind, "r") # NoExc
       THEN [exc |-> OpenError(kind, "r"), data |-> None]
    ELSE IF text.kind # "json"
       THEN [exc |-> Exc("JSONDecodeError", <<"Expecting value">>),
             data |-> None]
    ELSE [exc |-> NoExc, data |-> text.val]

\* load_config(fname): except OSError wraps what the body raised.
load_config(kind, text) ==
    LET r == load_try(kind, text)
    IN IF r.exc.type \in OSErrors
          THEN [r EXCEPT !.exc = Exc("ConfigError",
                                     <<"Could not load">> \o r.exc.msg)]
          ELSE r

\* A faulty nprint: it prints whatever the flag says.
nprint_always(out, msg) == Append(out, msg)

\* nprint(msg): the lines on standard output after it.  It reads the
\* global flag, which main has set by then.
nprint(out, msg) == IF ~SILENT_OUTPUT' THEN Append(out, msg) ELSE out

\* The status the operating system reports for sys.exit(n): one byte.
ExitStatus(n) == n % 256

\* ------------------------------------------------------------ bak.py: main
\* main(), from the parsed arguments to the end of the process.
main ==
    /\ pc = "start"
    /\ pc' = "done"
    /\ SILENT_OUTPUT' = argSilent
    /\ IF argUse
          THEN LET r == load_config(cfgKind, cfgText)
               IN /\ calls' = <<"get_args", "load_config">>
                  /\ raised' = r.exc
                  /\ UNCHANGED <<cfgKind, cfgText>>
                  /\ IF r.exc = NoExc
                        \* load_config's value is dropped and main returns
                        THEN /\ stdout' = stdout
                             /\ exitCode' = ExitStatus(0)
                     ELSE IF r.exc.type = "ConfigError"
                        THEN /\ stdout' = nprint(stdout, r.exc.msg)
                             /\ exitCode' = ExitStatus(-1)
                     ELSE /\ stdout' = nprint(stdout,
                                              <<"Unknown error occurred">> \o r.exc.msg)
                          /\ exitCode' = ExitStatus(-1)
          ELSE LET r == create_config(cfgKind, cfgText, home)
               IN /\ calls' = <<"get_args", "create_config">>
                  /\ raised' = r.exc
                  /\ cfgKind' = r.kind
                  /\ cfgText' = r.text
                  /\ IF r.exc = NoExc
                        \* sys.exit(0): SystemExit is no Exception
                        THEN /\ stdout' = nprint(stdout, <<"Created">>)
                             /\ exitCode' = ExitStatus(0)
                     ELSE IF r.exc.type = "ConfigError"
                        THEN /\ stdout' = nprint(stdout, r.exc.msg)
                             /\ exitCode' = ExitStatus(-1)
                     ELSE /\ stdout' = nprint(stdout,
                                              <<"Unknown error occurred">> \o r.exc.msg)
                          /\ exitCode' = ExitStatus(-1)
    /\ UNCHANGED <<argUse, argSilent, home, archVars>>

\* ------------------------------------------------------------------ Init
\* No run of bak.py.
MainIdle ==
    /\ pc = "idle"
    /\ argUse = FALSE
    /\ argSilent = FALSE
    /\ home = "/root"
    /\ cfgKind = "none"
    /\ cfgText = [kind |-> "text", val |-> ""]
    /\ SILENT_OUTPUT = FALSE
    /\ raised = NoExc
    /\ stdout = <<>>
    /\ exitCode = -1
    /\ calls = <<>>

\* No Archive instance.
ArchIdle ==
    /\ now = 0
    /\ disk = <<>>
    /\ obj = "none"
    /\ fitems = <<>>
    /\ root = None
    /\ items = <<>>
    /\ base_name = <<>>
    /\ timestamp = <<>>
    /\ packed = FALSE
    /\ lastOp = "none"
    /\ lastExc = "none"
    /\ lastRet = None
    /\ wrote = <<>>
    /\ opened = <<>>
    /\ packDone = FALSE

\* An Archive about to be constructed, under some file system.
Init ==
    /\ fs \in FileSystems
    /\ ArchIdle
    /\ MainIdle

Next ==
    \/ Construct
    \/ pack
    \/ get_md5
    \/ is_packed
    \/ get_root
    \/ get_items
    \/ GetName
    \/ Tick

Spec == Init /\ [][Next]_vars

\* A run of bak.py about to start, with some arguments, home directory and
\* state of the config path.
MainInit ==
    /\ fs = [n \in Nodes |-> IF n \in {<<>>, Cwd} THEN "dir" ELSE "none"]
    /\ ArchIdle
    /\ pc = "start"
    /\ argUse \in BOOLEAN
    /\ argSilent \in BOOLEAN
    /\ home \in Homes
    /\ \E c \in ConfigStates : cfgKind = c[1] /\ cfgText = c[2]
    /\ SILENT_OUTPUT = FALSE
    /\ raised = NoExc
    /\ stdout = <<>>
    /\ exitCode = -1
    /\ calls = <<>>

MainNext == main

\* The process runs to its end: main is one sequential run.
MainSpec == MainInit /\ [][MainNext]_vars /\ WF_vars(MainNext)

\* ================================================================ claims
Range(f) == {f[i] : i \in DOMAIN f}

IsSuffix(t, u) == Len(t) <= Len(u) /\ SubSeq(u, Len(u) - Len(t) + 1, Len(u)) = t

\* C1 (as stated): whatever the arguments of __init__, the packed flag
\* included, a get_md5() call made before any pack() call has completed
\* fails with the state error (ArchiveException), and one made after a
\* completed pack() succeeds.
C1_DigestGatedByPack ==
    lastOp = "get_md5" =>
        /\ ~packDone => lastExc = "ArchiveException"
        /\ packDone => lastExc = "none"

\* The members pack() would write if it skipped every item whose join
\* is None and went on.
RECURSIVE AddedSkipping(_, _)
AddedSkipping(r, its) ==
    IF its = <<>> THEN <<>>
    ELSE (IF join_path(r, Head(its)) = None THEN <<>>
          ELSE <<[src |-> join_path(r, Head(its)), arcname |-> Head(its)]>>)
            \o AddedSkipping(r, Tail(its))

\* C2 (as stated): pack() skips, without an error, every item whose join
\* against root is no existing file or directory, adds the others in order,
\* completes and sets packed.
C2_PackSkipsMissing ==
    lastOp = "pack" =>
        /\ lastExc = "none"
        /\ packed
        /\ disk[wrote].members = AddedSkipping(root, items)

Getters ==
    {"get_md5", "get_name(True)", "get_name(False)", "get_root", "get_items",
     "is_packed"}

\* C3: over every step of a live instance the packed flag never goes from
\* true to false; it goes from false to true only in a pack() call that
\* completed without an error; a pack() call that raises, and every call
\* of get_md5, get_name, get_root, get_items and is_packed, leaves it as
\* it was.
C3_PackedMonotonic ==
    [][(obj = "live" /\ obj' = "live") =>
          /\ packed => packed'
          /\ (~packed /\ packed') => (lastOp' = "pack" /\ lastExc' = "none")
          /\ (lastOp' = "pack" /\ lastExc' # "none") => packed' = packed
          /\ lastOp' \in Getters => packed' = packed]_vars

\* C3's case: a pack() call that raised on an unpacked instance.
C3_Witness ==
    /\ obj = "live"
    /\ lastOp = "pack"
    /\ lastExc = "TypeError"
    /\ ~packed
    /\ wrote \in DOMAIN disk

\* C4: the items stored by __init__ are the candidates, in input order and
\* with duplicates, that are an existing file or directory themselves or
\* joined to root; each is stored as given; the others are dropped without
\* an error.
C4_ItemsAreTheValidCandidates ==
    obj = "live" =>
        LET Keep(c) == is_valid_item(c) \/ is_valid_item(PathJoin(root, c))
        IN /\ items = SelectSeq(fitems, Keep)
           /\ lastOp = "__init__" => lastExc = "none"

\* C4's case: a candidate was dropped, one was kept, and a kept one exists
\* only under root.
C4_Witness ==
    /\ obj = "live"
    /\ lastOp = "__init__"
    /\ Len(items) >= 1
    /\ Len(items) < Len(fitems)
    /\ \E i \in DOMAIN items :
          ~is_valid_item(items[i]) /\ is_valid_item(PathJoin(root, items[i]))

\* C5 (as stated): a --use run fails if the config path is no regular file;
\* otherwise a run that succeeds has handed the parsed fields to an Archive.
C5_UseReachesArchive ==
    (pc = "done" /\ argUse) =>
        /\ cfgKind # "file" => exitCode # 0
        /\ (cfgKind = "file" /\ cfgText.kind = "json"
                /\ DOMAIN cfgText.val = {"root", "files"} /\ exitCode = 0) =>
              "Archive" \in Range(calls)

\* C6: create_config never overwrites.  With a regular file at the path it
\* raises a ConfigError that says the file already exists and leaves the
\* file as it was; the path changes only from holding nothing to holding
\* the default template (root = the home directory, two example entries).
C6_CreateNeverOverwrites ==
    [][(pc = "start" /\ pc' = "done" /\ ~argUse) =>
          /\ cfgKind = "file" =>
                /\ raised'.type = "ConfigError"
                /\ "File already exists." \in Range(raised'.msg)
                /\ cfgKind' = "file"
                /\ cfgText' = cfgText
          /\ (cfgKind' # cfgKind \/ cfgText' # cfgText) =>
                /\ cfgKind = "none"
                /\ cfgKind' = "file"
                /\ cfgText' = JsonDump([root |-> home,
                                        files |-> <<"pictures",
                                                    "videos/funny_vid.mp4">>])]_vars

\* C6's case: create_config was called on an existing file that holds
\* something other than the template.
C6_Witness ==
    /\ pc = "done"
    /\ ~argUse
    /\ cfgKind = "file"
    /\ cfgText # JsonDump(Template(home))
    /\ raised.type = "ConfigError"
    /\ "File already exists." \in Range(raised.msg)

\* C7 (as stated): the exception load_config or create_config raises is a
\* ConfigError and nothing else: load_config for a missing path, for a path
\* that is no regular file and for content that is no JSON; create_config
\* for an existing file.
C7_FailuresAreConfigErrors ==
    pc = "done" =>
        /\ raised # NoExc => raised.type = "ConfigError"
        /\ (argUse /\ (cfgKind # "file" \/ cfgText.kind # "json")) =>
              raised.type = "ConfigError"
        /\ (~argUse /\ raised # NoExc /\ cfgKind = "file") =>
              raised.type = "ConfigError"

\* C8: a run of main ends, with exit status 0 when the config was created
\* and a status other than 0 when load_config or create_config raised; on
\* such an exit the error's message is the one line printed unless the
\* silent flag is set, and nothing is printed when it is set.
C8_ExitCodes ==
    /\ <>(pc = "done")
    /\ [](pc = "done" =>
            /\ (~argUse /\ raised = NoExc) => exitCode = 0
            /\ raised # NoExc =>
                  /\ exitCode \in 1..255
                  /\ ~argSilent =>
                        /\ Len(stdout) = 1
                        /\ IsSuffix(raised.msg, stdout[1])
            /\ argSilent => stdout = <<>>)

\* C8's case: a failed run that printed its error.
C8_Witness ==
    /\ pc = "done"
    /\ raised # NoExc
    /\ ~argSilent
    /\ exitCode = 255
    /\ stdout = <<raised.msg>>

\* C9: over every step of a live instance get_name(flag) keeps its value
\* for each flag, whatever is called and whatever the packed field holds;
\* it is the base name, "-", the timestamp taken in __init__, and the
\* extension, so the two flags give names that differ in the extension
\* only; and the file get_md5() opens is the one the last pack() wrote.
C9_NameIsStable ==
    [][obj' = "live" =>
          /\ obj = "live" => \A f \in BOOLEAN : get_name(f)' = get_name(f)
          /\ obj = "none" => timestamp' = Strftime(now)
          /\ \A f \in BOOLEAN :
                get_name(f)' = base_name' \o <<"-">> \o timestamp'
                                  \o (IF f THEN ExtTgz ELSE ExtTar)
          /\ SubSeq(get_name(TRUE)', 1, Len(get_name(TRUE)') - 4)
                = SubSeq(get_name(FALSE)', 1, Len(get_name(FALSE)') - 4)
          /\ (opened' # <<>> /\ wrote' # <<>>) => opened' = wrote']_vars

\* C9's case: get_md5() opened the file pack() wrote, seconds after the
\* instance was made.
C9_Witness ==
    /\ obj = "live"
    /\ lastOp = "get_md5"
    /\ lastExc = "none"
    /\ timestamp # Strftime(now)
    /\ opened = wrote
    /\ opened = get_name(TRUE)

\* C10 (as stated): every stored item joins against root to an existing
\* file or directory, so pack() passes no None to the tar writer and always
\* completes with packed set.
C10_StoredItemsJoin ==
    obj = "live" =>
        /\ \A i \in DOMAIN items : join_path(root, items[i]) # None
        /\ lastOp = "pack" => (lastExc = "none" /\ packed)

====
